---- MODULE Spec2Model ----
(***************************************************************************)
(* Model of src/server.js, a WebRTC signaling relay.  The file holds two   *)
(* server definitions:                                                     *)
(*   - the broadcast version (lines 1-253): tours map a tourId to          *)
(*     { guide: ws, participants: Set<ws> }, connections map a ws to       *)
(*     { userId, tourId, role };                                           *)
(*   - the targeted version (lines 255-420): tours map a tourId to         *)
(*     { guide: { ws, userId }, participants: Map<userId, ws> },           *)
(*     connections map a ws to { userId, tourId }.                         *)
(* The variable version selects which definition a behaviour runs; the     *)
(* operators prefixed B_ model the first, those prefixed T_ the second.    *)
(* Every handler runs to completion (single-threaded event loop), so each  *)
(* handler is one atomic action.                                           *)
(* Specifications: Spec (well-formed clients calling the operations),      *)
(* SpecFaults (plus silent transport death), SpecWire (every join arrives  *)
(* as a frame at the websocket message handler), SpecFrom (relay frames    *)
(* carrying client-written sender fields), SpecAnyRole (joins carrying any *)
(* role field).                                                            *)
(***************************************************************************)
EXTENDS Integers, FiniteSets, Sequences, TLC

\* ------------------------------------------------------------------ bounds
NumHandles == 3      \* connection handles (ws objects) in play
NumTours   == 2      \* tour ids a client may name
NumUsers   == 2      \* user ids a client may claim
MaxDead    == 1      \* transports that may die without a close notification

Handles == 1..NumHandles
TourIds == 1..NumTours
UserIds == 1..NumUsers
NoWs    == 0         \* null / undefined handle
NoUser  == 0         \* undefined userId / targetId
Roles   == {"guide", "participant"}
RelayTypes == {"offer", "answer", "ice-candidate"}
\* The role field of a 'join-tour' frame: a role, or something else.  The code
\* only compares role with 'guide' and 'participant', so one other value
\* stands for every other string and for a missing role.
AnyRoles == Roles \cup {"viewer"}

VARIABLES
  version,      \* "broadcast" or "targeted": which server definition runs
  tours,        \* const tours = new Map()
  connections,  \* const connections = new Map()
  transport,    \* per handle: "open", "closed" (close handler has run), "dead"
  out,          \* frames the last handler passed to send()/ping(): to, type
  lastOp,       \* the last event handled and its inputs
  snap,         \* registries before a join by an unbound handle (kept one leave)
  fresh         \* the handle of the last event had no identity record before it

vars == <<version, tours, connections, transport, out, lastOp, snap, fresh>>

\* ------------------------------------------------------- Map helpers (JS Map)
EmptyMap == [x \in {} |-> 0]
Put(f, k, v) == [x \in (DOMAIN f) \cup {k} |-> IF x = k THEN v ELSE f[x]]
Del(f, k) == [x \in (DOMAIN f) \ {k} |-> f[x]]
Values(f) == {f[x] : x \in DOMAIN f}

Frame(to, type) == [to |-> to, type |-> type]
\* A relayed frame: { ...data, fromId / fromRole } as sent to a member.
Envelope(to, data, fromId, fromRole) ==
  [to |-> to, type |-> data.type, fromId |-> fromId, fromRole |-> fromRole]
Result(t, c, o) == [tours |-> t, connections |-> c, out |-> o]

\* ===================================================== broadcast version
B_NewTour == [guide |-> NoWs, participants |-> {}]

\* leaveTour, lines 155-193.  st holds tours, connections and the frames
\* sent so far.
B_leaveTour(st, ws) ==
  IF ws \notin DOMAIN st.connections THEN st
  ELSE
    LET connection == st.connections[ws]
        tourId == connection.tourId
    IN
    IF tourId \notin DOMAIN st.tours THEN st
    ELSE
      LET tour == st.tours[tourId]
          isGuide == connection.role = "guide" /\ tour.guide = ws
          isPart  == ~isGuide /\ connection.role = "participant"
          tour1 == IF isGuide THEN [tour EXCEPT !.guide = NoWs]
                   ELSE IF isPart
                        THEN [tour EXCEPT !.participants = @ \ {ws}]
                        ELSE tour
          sent == IF isGuide
                  THEN {Frame(p, "guide-left") : p \in tour.participants}
                  ELSE IF isPart /\ tour1.guide # NoWs
                       THEN {Frame(tour1.guide, "participant-left")}
                       ELSE {}
          tours1 == IF tour1.guide = NoWs /\ tour1.participants = {}
                    THEN Del(st.tours, tourId)
                    ELSE Put(st.tours, tourId, tour1)
      IN Result(tours1, Del(st.connections, ws), st.out \cup sent)

\* joinTour with the rejection branch forgetting connections.delete(ws).
B_joinTour_KeepsIdentity(st, ws, tourId, userId, role) ==
  LET s1 == B_leaveTour(st, ws)
      tours2 == IF tourId \notin DOMAIN s1.tours
                THEN Put(s1.tours, tourId, B_NewTour)
                ELSE s1.tours
      tour == tours2[tourId]
      conns2 == Put(s1.connections, ws,
                    [userId |-> userId, tourId |-> tourId, role |-> role])
  IN
  IF role = "guide" THEN
    IF tour.guide # NoWs
    THEN Result(tours2, conns2, s1.out \cup {Frame(ws, "error")})
    ELSE Result(Put(tours2, tourId, [tour EXCEPT !.guide = ws]), conns2,
                s1.out \cup {Frame(ws, "joined-tour")})
  ELSE IF role = "participant" THEN
    Result(Put(tours2, tourId, [tour EXCEPT !.participants = @ \cup {ws}]),
           conns2,
           s1.out
             \cup (IF tour.guide # NoWs
                   THEN {Frame(tour.guide, "participant-joined")} ELSE {})
             \cup {Frame(ws, "joined-tour")})
  ELSE Result(tours2, conns2, s1.out \cup {Frame(ws, "joined-tour")})

\* joinTour, lines 114-153.
B_joinTour(st, ws, tourId, userId, role) ==
  LET s1 == B_leaveTour(st, ws)
      tours2 == IF tourId \notin DOMAIN s1.tours
                THEN Put(s1.tours, tourId, B_NewTour)
                ELSE s1.tours
      tour == tours2[tourId]
      conns2 == Put(s1.connections, ws,
                    [userId |-> userId, tourId |-> tourId, role |-> role])
  IN
  IF role = "guide" THEN
    IF tour.guide # NoWs
    THEN Result(tours2, Del(conns2, ws), s1.out \cup {Frame(ws, "error")})
    ELSE Result(Put(tours2, tourId, [tour EXCEPT !.guide = ws]), conns2,
                s1.out \cup {Frame(ws, "joined-tour")})
  ELSE IF role = "participant" THEN
    Result(Put(tours2, tourId, [tour EXCEPT !.participants = @ \cup {ws}]),
           conns2,
           s1.out
             \cup (IF tour.guide # NoWs
                   THEN {Frame(tour.guide, "participant-joined")} ELSE {})
             \cup {Frame(ws, "joined-tour")})
  ELSE Result(tours2, conns2, s1.out \cup {Frame(ws, "joined-tour")})

\* relayToParticipants, lines 195-209.
B_relayToParticipants(st, tourId, data, senderWs) ==
  IF tourId \notin DOMAIN st.tours THEN st
  ELSE IF senderWs \notin DOMAIN st.connections THEN st
  ELSE IF st.connections[senderWs].role # "guide" THEN st
  ELSE [st EXCEPT !.out = @ \cup
          {Envelope(p, data, data.fromId, "guide") :
             p \in st.tours[tourId].participants \ {senderWs}}]

\* relayToGuide, lines 211-217.
B_relayToGuide(st, tourId, data) ==
  IF tourId \notin DOMAIN st.tours THEN st
  ELSE IF st.tours[tourId].guide = NoWs THEN st
  ELSE [st EXCEPT !.out = @ \cup {Envelope(st.tours[tourId].guide, data,
                                           data.fromId, "participant")}]

\* relayIceCandidate, lines 219-235.
B_relayIceCandidate(st, senderConnection, data) ==
  LET tourId == senderConnection.tourId
      role == senderConnection.role
  IN
  IF tourId \notin DOMAIN st.tours THEN st
  ELSE
    LET tour == st.tours[tourId] IN
    IF role = "guide"
    THEN [st EXCEPT !.out = @ \cup {Envelope(p, data, data.fromId, role) :
                                      p \in tour.participants}]
    ELSE IF tour.guide # NoWs
         THEN [st EXCEPT !.out = @ \cup {Envelope(tour.guide, data, data.fromId,
                                                  role)}]
         ELSE st

\* handleMessage relaying an offer into the tour the client names in the
\* frame (data.tourId) instead of the sender's own tour.
B_handleMessage_ClientTour(st, ws, data) ==
  LET bound == ws \in DOMAIN st.connections IN
  CASE data.type = "join-tour" ->
         B_joinTour(st, ws, data.tourId, data.userId, data.role)
    [] data.type = "leave-tour" -> B_leaveTour(st, ws)
    [] data.type = "offer" ->
         IF bound THEN B_relayToParticipants(st, data.tourId, data, ws)
         ELSE st
    [] data.type = "answer" ->
         IF bound THEN B_relayToGuide(st, st.connections[ws].tourId, data)
         ELSE st
    [] data.type = "ice-candidate" ->
         IF bound THEN B_relayIceCandidate(st, st.connections[ws], data)
         ELSE st
    [] data.type = "ping" -> [st EXCEPT !.out = @ \cup {Frame(ws, "pong")}]
    [] OTHER -> [st EXCEPT !.out = @ \cup {Frame(ws, "error")}]

\* handleMessage, lines 80-112.  data is the parsed client frame.
B_handleMessage(st, ws, data) ==
  LET bound == ws \in DOMAIN st.connections IN
  CASE data.type = "join-tour" ->
         B_joinTour(st, ws, data.tourId, data.userId, data.role)
    [] data.type = "leave-tour" -> B_leaveTour(st, ws)
    [] data.type = "offer" ->
         IF bound
         THEN B_relayToParticipants(st, st.connections[ws].tourId, data, ws)
         ELSE st
    [] data.type = "answer" ->
         IF bound THEN B_relayToGuide(st, st.connections[ws].tourId, data)
         ELSE st
    [] data.type = "ice-candidate" ->
         IF bound THEN B_relayIceCandidate(st, st.connections[ws], data)
         ELSE st
    [] data.type = "ping" -> [st EXCEPT !.out = @ \cup {Frame(ws, "pong")}]
    [] OTHER -> [st EXCEPT !.out = @ \cup {Frame(ws, "error")}]

\* websocket.message, lines 8-16, for a frame that parses as JSON.
B_message(st, ws, data) == B_handleMessage(st, ws, data)

\* handleDisconnection, lines 237-240.
B_handleDisconnection(st, ws) == B_leaveTour(st, ws)

\* ====================================================== targeted version
T_NoGuide == [ws |-> NoWs, userId |-> NoUser]    \* guide: null
T_NewTour == [guide |-> T_NoGuide, participants |-> EmptyMap]

\* leaveTour answering an unknown handle with an error frame instead of
\* returning silently at line 364.
T_leaveTour_ErrorWhenUnbound(st, ws) ==
  IF ws \notin DOMAIN st.connections
  THEN [st EXCEPT !.out = @ \cup {Frame(ws, "error")}]
  ELSE
    LET connection == st.connections[ws]
        userId == connection.userId
        tourId == connection.tourId
    IN
    IF tourId \notin DOMAIN st.tours THEN st
    ELSE
      LET tour == st.tours[tourId] IN
      IF tour.guide # T_NoGuide /\ tour.guide.userId = userId THEN
        Result(Del(st.tours, tourId), Del(st.connections, ws),
               st.out \cup {Frame(p, "guide-left") : p \in Values(tour.participants)})
      ELSE IF userId \in DOMAIN tour.participants THEN
        Result(Put(st.tours, tourId,
                   [tour EXCEPT !.participants = Del(@, userId)]),
               Del(st.connections, ws),
               st.out \cup (IF tour.guide # T_NoGuide
                            THEN {Frame(tour.guide.ws, "participant-left")}
                            ELSE {}))
      ELSE Result(st.tours, Del(st.connections, ws), st.out)

\* leaveTour, lines 362-390.
T_leaveTour(st, ws) ==
  IF ws \notin DOMAIN st.connections THEN st
  ELSE
    LET connection == st.connections[ws]
        userId == connection.userId
        tourId == connection.tourId
    IN
    IF tourId \notin DOMAIN st.tours THEN st
    ELSE
      LET tour == st.tours[tourId] IN
      IF tour.guide # T_NoGuide /\ tour.guide.userId = userId THEN
        Result(Del(st.tours, tourId), Del(st.connections, ws),
               st.out \cup {Frame(p, "guide-left") : p \in Values(tour.participants)})
      ELSE IF userId \in DOMAIN tour.participants THEN
        Result(Put(st.tours, tourId,
                   [tour EXCEPT !.participants = Del(@, userId)]),
               Del(st.connections, ws),
               st.out \cup (IF tour.guide # T_NoGuide
                            THEN {Frame(tour.guide.ws, "participant-left")}
                            ELSE {}))
      ELSE Result(st.tours, Del(st.connections, ws), st.out)

\* joinTour without the leaveTour(ws) call that opens it (line 333).
T_joinTour_NoLeave(st, ws, tourId, userId, role) ==
  LET s1 == st
      tours2 == IF tourId \notin DOMAIN s1.tours
                THEN Put(s1.tours, tourId, T_NewTour)
                ELSE s1.tours
      tour == tours2[tourId]
      conns2 == Put(s1.connections, ws, [userId |-> userId, tourId |-> tourId])
  IN
  IF role = "guide" THEN
    IF tour.guide # T_NoGuide
    THEN Result(tours2, Del(conns2, ws), s1.out \cup {Frame(ws, "error")})
    ELSE Result(Put(tours2, tourId,
                    [tour EXCEPT !.guide = [ws |-> ws, userId |-> userId]]),
                conns2, s1.out)
  ELSE IF role = "participant" THEN
    Result(Put(tours2, tourId,
               [tour EXCEPT !.participants = Put(@, userId, ws)]),
           conns2,
           s1.out \cup (IF tour.guide # T_NoGuide
                        THEN {Frame(tour.guide.ws, "participant-joined")}
                        ELSE {}))
  ELSE Result(tours2, conns2, s1.out)

\* joinTour, lines 332-360.
T_joinTour(st, ws, tourId, userId, role) ==
  LET s1 == T_leaveTour(st, ws)
      tours2 == IF tourId \notin DOMAIN s1.tours
                THEN Put(s1.tours, tourId, T_NewTour)
                ELSE s1.tours
      tour == tours2[tourId]
      conns2 == Put(s1.connections, ws, [userId |-> userId, tourId |-> tourId])
  IN
  IF role = "guide" THEN
    IF tour.guide # T_NoGuide
    THEN Result(tours2, Del(conns2, ws), s1.out \cup {Frame(ws, "error")})
    ELSE Result(Put(tours2, tourId,
                    [tour EXCEPT !.guide = [ws |-> ws, userId |-> userId]]),
                conns2, s1.out)
  ELSE IF role = "participant" THEN
    Result(Put(tours2, tourId,
               [tour EXCEPT !.participants = Put(@, userId, ws)]),
           conns2,
           s1.out \cup (IF tour.guide # T_NoGuide
                        THEN {Frame(tour.guide.ws, "participant-joined")}
                        ELSE {}))
  ELSE Result(tours2, conns2, s1.out)

\* relay, lines 392-411.
T_relay(st, fromId, tourId, data) ==
  IF tourId \notin DOMAIN st.tours THEN st
  ELSE
    LET tour == st.tours[tourId]
        targetId == data.targetId
        targetWs == IF tour.guide # T_NoGuide /\ tour.guide.userId = targetId
                    THEN tour.guide.ws
                    ELSE IF targetId \in DOMAIN tour.participants
                         THEN tour.participants[targetId]
                         ELSE NoWs
    IN IF targetWs # NoWs
       THEN [st EXCEPT !.out = @ \cup {Envelope(targetWs, data, fromId,
                                                data.fromRole)}]
       ELSE st

\* handleMessage, lines 314-330.
T_handleMessage(st, ws, data, connectionInfo) ==
  LET fromId == connectionInfo.userId IN
  CASE data.type = "join-tour" ->
         T_joinTour(st, ws, data.tourId, data.userId, data.role)
    [] data.type \in RelayTypes -> T_relay(st, fromId, data.tourId, data)
    [] OTHER -> [st EXCEPT !.out = @ \cup {Frame(ws, "error")}]

\* websocket.message, lines 262-273: frames of unbound connections are dropped.
T_message(st, ws, data) ==
  IF ws \in DOMAIN st.connections
  THEN T_handleMessage(st, ws, data, st.connections[ws])
  ELSE st

\* handleDisconnection, lines 413-416.
T_handleDisconnection(st, ws) == T_leaveTour(st, ws)

\* ============================================================ environment
\* The registries as the handlers see them, with nothing sent yet.
St == Result(tours, connections, {})

\* ws is still referenced by a registry (Map key, guide slot or participant).
Referenced(t, c, ws) ==
  \/ ws \in DOMAIN c
  \/ \E id \in DOMAIN t :
       IF version = "broadcast"
       THEN t[id].guide = ws \/ ws \in t[id].participants
       ELSE t[id].guide.ws = ws \/ ws \in Values(t[id].participants)

\* A closed ws object that no registry references any more is garbage; its
\* number stands for a brand-new connection from then on.
Recycle(tr, t, c) ==
  [h \in Handles |->
     IF tr[h] = "closed" /\ ~Referenced(t, c, h) THEN "open" ELSE tr[h]]

Op(op, ws) == [op |-> op, ws |-> ws]

\* A parsed client frame.  fromId and fromRole are fields a client may put
\* into its own frame; Data leaves them out, From sets them.
Data(type, tourId, userId, role, targetId) ==
  [type |-> type, tourId |-> tourId, userId |-> userId, role |-> role,
   targetId |-> targetId, fromId |-> NoUser, fromRole |-> ""]

From(data, fromId, fromRole) ==
  [data EXCEPT !.fromId = fromId, !.fromRole = fromRole]

\* What a client may write into fromId / fromRole: nothing, or the identity
\* of a guide.
ClientSenders == {<<NoUser, "">>} \cup {<<u, "guide">> : u \in UserIds}

Init ==
  /\ version \in {"broadcast", "targeted"}
  /\ tours = EmptyMap
  /\ connections = EmptyMap
  /\ transport = [h \in Handles |-> "open"]
  /\ out = {}
  /\ lastOp = Op("init", NoWs)
  /\ snap = {}
  /\ fresh = FALSE

\* Commit a handler's result.  out keeps the recipient and the type of
\* every frame sent.
Commit(r, tr) ==
  /\ tours' = r.tours
  /\ connections' = r.connections
  /\ out' = {Frame(f.to, f.type) : f \in r.out}
  /\ transport' = Recycle(tr, r.tours, r.connections)
  /\ UNCHANGED version

\* joinTour(ws, tourId, userId, role).  Broadcast: a 'join-tour' frame through
\* handleMessage (lines 85-87).  Targeted: the joinTour operation itself
\* (lines 332-360; handleMessage lines 319-321 when ws is already bound).
JoinTour(ws, tourId, userId, role) ==
  /\ transport[ws] = "open"
  /\ \E r \in {IF version = "broadcast"
               THEN B_handleMessage(St, ws,
                      Data("join-tour", tourId, userId, role, NoUser))
               ELSE T_joinTour(St, ws, tourId, userId, role)} :
       Commit(r, transport)
  /\ lastOp' = Op("join-tour", ws)
  /\ snap' = IF ws \in DOMAIN connections THEN {}
             ELSE {[tours |-> tours, connections |-> connections]}
  /\ fresh' = (ws \notin DOMAIN connections)

\* leaveTour(ws).  Broadcast: a 'leave-tour' frame (lines 89-91).  Targeted:
\* the leaveTour operation (lines 362-390).
LeaveTour(ws) ==
  /\ transport[ws] = "open"
  /\ \E r \in {IF version = "broadcast"
               THEN B_handleMessage(St, ws,
                      Data("leave-tour", 0, NoUser, "", NoUser))
               ELSE T_leaveTour(St, ws)} :
       Commit(r, transport)
  /\ lastOp' = Op("leave-tour", ws)
  /\ snap' = IF lastOp.op = "join-tour" /\ lastOp.ws = ws THEN snap ELSE {}
  /\ fresh' = (ws \notin DOMAIN connections)

\* websocket.close(ws): lines 23-25 and 279-281.
Close(ws) ==
  /\ transport[ws] = "open"
  /\ \E r \in {IF version = "broadcast"
               THEN B_handleDisconnection(St, ws)
               ELSE T_handleDisconnection(St, ws)} :
       Commit(r, [transport EXCEPT ![ws] = "closed"])
  /\ lastOp' = Op("close", ws)
  /\ snap' = {}
  /\ fresh' = (ws \notin DOMAIN connections)

\* websocket.message(ws, frame) with an offer / answer / ice-candidate frame:
\* lines 8-16 and 262-273.  tourId and targetId are the client's fields.
\* A frame of an unbound connection is dropped (line 266) or ignored
\* (lines 94, 98, 102: if (connection)), so only bound senders are drawn.
\* The broadcast version never reads targetId, so it is drawn absent there.
Message(ws, type, tourId, targetId) ==
  /\ transport[ws] = "open"
  /\ ws \in DOMAIN connections
  /\ version = "broadcast" => targetId = NoUser
  /\ \E r \in {IF version = "broadcast"
               THEN B_handleMessage(St, ws,
                      Data(type, tourId, NoUser, "", targetId))
               ELSE T_message(St, ws,
                      Data(type, tourId, NoUser, "", targetId))} :
       Commit(r, transport)
  /\ lastOp' = Op("message", NoWs)
  /\ snap' = {}
  /\ fresh' = FALSE

\* websocket.message(ws, frame) with a relay frame in which the client has
\* set fromId and fromRole itself.
MessageFrom(ws, type, tourId, targetId, fromId, fromRole) ==
  /\ transport[ws] = "open"
  /\ ws \in DOMAIN connections
  /\ version = "broadcast" => targetId = NoUser
  /\ \E r \in {IF version = "broadcast"
               THEN B_message(St, ws,
                      From(Data(type, tourId, NoUser, "", targetId),
                           fromId, fromRole))
               ELSE T_message(St, ws,
                      From(Data(type, tourId, NoUser, "", targetId),
                           fromId, fromRole))} :
       Commit(r, transport)
  /\ lastOp' = Op("message", NoWs)
  /\ snap' = {}
  /\ fresh' = FALSE

\* Keep-alive ping, lines 242-249 (the broadcast version only has a timer).
Tick ==
  /\ version = "broadcast"
  /\ out' = {Frame(ws, "ping") :
               ws \in {h \in DOMAIN connections : transport[h] # "closed"}}
  /\ lastOp' = Op("tick", NoWs)
  /\ snap' = {}
  /\ fresh' = FALSE
  /\ UNCHANGED <<version, tours, connections, transport>>

\* The transport of a bound connection dies and no close event is delivered.
Die(ws) ==
  /\ transport[ws] = "open"
  /\ ws \in DOMAIN connections
  /\ Cardinality({h \in Handles : transport[h] = "dead"}) < MaxDead
  /\ transport' = [transport EXCEPT ![ws] = "dead"]
  /\ out' = {}
  /\ lastOp' = Op("die", NoWs)
  /\ snap' = {}
  /\ fresh' = FALSE
  /\ UNCHANGED <<version, tours, connections>>

\* websocket.message(ws, frame) with a well-formed 'join-tour' frame: lines
\* 8-16 and 262-273.  The frame may come from any open connection.
MessageJoin(ws, tourId, userId, role) ==
  /\ transport[ws] = "open"
  /\ \E r \in {IF version = "broadcast"
               THEN B_message(St, ws,
                      Data("join-tour", tourId, userId, role, NoUser))
               ELSE T_message(St, ws,
                      Data("join-tour", tourId, userId, role, NoUser))} :
       Commit(r, transport)
  /\ lastOp' = Op("join-tour", ws)
  /\ snap' = IF ws \in DOMAIN connections THEN {}
             ELSE {[tours |-> tours, connections |-> connections]}
  /\ fresh' = (ws \notin DOMAIN connections)

Next ==
  \/ \E ws \in Handles, tourId \in TourIds, userId \in UserIds, role \in Roles :
       JoinTour(ws, tourId, userId, role)
  \/ \E ws \in Handles : LeaveTour(ws)
  \/ \E ws \in Handles : Close(ws)
  \/ \E ws \in Handles, type \in RelayTypes, tourId \in TourIds,
        targetId \in UserIds \cup {NoUser} :
       Message(ws, type, tourId, targetId)
  \/ Tick

\* Normal operation: every transport that ends is reported by a close event.
Spec == Init /\ [][Next]_vars

\* websocket.message(ws, frame) with a 'leave-tour' frame: lines 8-16 and
\* 89-91.  The targeted handleMessage has no such case.
MessageLeave(ws) == version = "broadcast" /\ LeaveTour(ws)

\* The server as its clients reach it: every join is a 'join-tour' frame
\* handed to the websocket message handler, and a handle leaves by closing
\* or, in the broadcast version, by a 'leave-tour' frame.
NextWire ==
  \/ \E ws \in Handles, tourId \in TourIds, userId \in UserIds, role \in Roles :
       MessageJoin(ws, tourId, userId, role)
  \/ \E ws \in Handles : MessageLeave(ws)
  \/ \E ws \in Handles : Close(ws)
  \/ \E ws \in Handles, type \in RelayTypes, tourId \in TourIds,
        targetId \in UserIds \cup {NoUser} :
       Message(ws, type, tourId, targetId)
  \/ Tick

SpecWire == Init /\ [][NextWire]_vars

\* Clients that also fill in the sender fields of their relay frames.
NextFrom ==
  \/ \E ws \in Handles, tourId \in TourIds, userId \in UserIds, role \in Roles :
       JoinTour(ws, tourId, userId, role)
  \/ \E ws \in Handles : LeaveTour(ws)
  \/ \E ws \in Handles : Close(ws)
  \/ \E ws \in Handles, type \in RelayTypes, tourId \in TourIds,
        targetId \in UserIds \cup {NoUser}, from \in ClientSenders :
       MessageFrom(ws, type, tourId, targetId, from[1], from[2])
  \/ Tick

SpecFrom == Init /\ [][NextFrom]_vars

\* Clients whose 'join-tour' frames may carry any role field.
NextAnyRole ==
  \/ \E ws \in Handles, tourId \in TourIds, userId \in UserIds, role \in AnyRoles :
       JoinTour(ws, tourId, userId, role)
  \/ \E ws \in Handles : LeaveTour(ws)
  \/ \E ws \in Handles : Close(ws)
  \/ \E ws \in Handles, type \in RelayTypes, tourId \in TourIds,
        targetId \in UserIds \cup {NoUser} :
       Message(ws, type, tourId, targetId)
  \/ Tick

SpecAnyRole == Init /\ [][NextAnyRole]_vars

\* Operation with transport faults: a transport may also die silently.
NextFaults ==
  \/ Next
  \/ \E ws \in Handles : Die(ws)

SpecFaults == Init /\ [][NextFaults]_vars

\* ================================================================ claims
Recipients(frames) == {f.to : f \in frames}

\* The handles a tour references (guide slot and participants).
Members(t) ==
  IF version = "broadcast"
  THEN ({tours[t].guide} \ {NoWs}) \cup tours[t].participants
  ELSE ({tours[t].guide.ws} \ {NoWs}) \cup Values(tours[t].participants)

GuideWs(t) ==
  IF version = "broadcast" THEN tours[t].guide ELSE tours[t].guide.ws

GuideHeldByOther(t, ws) ==
  t \in DOMAIN tours /\ GuideWs(t) \notin {NoWs, ws}

BoundTo(ws, t) == ws \in DOMAIN connections /\ connections[ws].tourId = t

\* The step is a joinTour of ws; the step is a relayed client frame.
JoinBy(ws) == lastOp' = Op("join-tour", ws)
MessageStep == lastOp' = Op("message", NoWs)

\* At most one connection is registered as guide of a tour.  The guide slot
\* of a tour is a single field in both versions; in the broadcast version the
\* Connection Registry also records the role, and it must agree.
AtMostOneGuide ==
  version = "broadcast" =>
    \A t \in TourIds :
      Cardinality({h \in DOMAIN connections :
                     connections[h].role = "guide" /\ connections[h].tourId = t}) <= 1

\* The join of ws as guide of t was rejected and left t alone.
GuideJoinRejected(ws, t) ==
  /\ Frame(ws, "error") \in out'
  /\ t \in DOMAIN tours'
  /\ tours'[t] = tours[t]
  /\ ws \notin DOMAIN connections'

\* C1 as written: every tour has at most one guide, and a joinTour with role
\* 'guide' on a tour whose guide slot is held by another handle is rejected
\* with an error frame, leaves the tour's guide slot and participant table
\* unchanged and leaves the joining handle unbound.
C1_RoleExclusivity_AsWritten ==
  /\ []AtMostOneGuide
  /\ [][\A ws \in Handles : JoinBy(ws) =>
          \A t \in TourIds, u \in UserIds :
            (GuideHeldByOther(t, ws) /\ JoinTour(ws, t, u, "guide"))
              => GuideJoinRejected(ws, t)]_vars

\* C1 amended: the same, for a joining handle that is not currently bound to
\* that tour (a handle bound to the tour is first removed from it by the
\* leaveTour call that opens joinTour).
C1_RoleExclusivity ==
  /\ []AtMostOneGuide
  /\ [][\A ws \in Handles : JoinBy(ws) =>
          \A t \in TourIds, u \in UserIds :
            (GuideHeldByOther(t, ws) /\ ~BoundTo(ws, t)
               /\ JoinTour(ws, t, u, "guide"))
              => GuideJoinRejected(ws, t)]_vars

\* C1 witness: a handle with no identity record was just rejected as second
\* guide of a tour that has a guide and a participant, and the tours are as
\* they were before the join.
C1_Witness ==
  /\ lastOp.op = "join-tour"
  /\ Frame(lastOp.ws, "error") \in out
  /\ lastOp.ws \notin DOMAIN connections
  /\ \E s \in snap : s.tours = tours
  /\ \E t \in DOMAIN tours :
       GuideHeldByOther(t, lastOp.ws) /\ Cardinality(Members(t)) >= 2

\* A tour with no guide and no participants.
EmptyTour(t) ==
  IF version = "broadcast"
  THEN tours[t].guide = NoWs /\ tours[t].participants = {}
  ELSE tours[t].guide = T_NoGuide /\ DOMAIN tours[t].participants = {}

\* C2: after every completed joinTour, leaveTour or disconnect the Tour
\* Registry holds no tour without guide and without participants (I3).
C2_AutoCleanup == \A t \in DOMAIN tours : ~EmptyTour(t)

\* C3: when leaveTour(handle) or the close handler has completed, the
\* Connection Registry holds no entry for that handle.
C3_IdentityDestroyed ==
  lastOp.op \in {"leave-tour", "close"} => lastOp.ws \notin DOMAIN connections

\* The connection the tour registry binds to identity X in tour t.
Holder(t, X) ==
  IF t \notin DOMAIN tours THEN {}
  ELSE IF tours[t].guide # T_NoGuide /\ tours[t].guide.userId = X
       THEN {tours[t].guide.ws}
       ELSE IF X \in DOMAIN tours[t].participants
            THEN {tours[t].participants[X]}
            ELSE {}

\* C4: in the targeted version a relay frame with targetId = X sent by a
\* connection bound to tour T is passed to no connection other than the one
\* bound to X in T, so never to a member of a different tour, whatever
\* tourId the frame carries.
C4_TargetedDelivery ==
  [][(version = "targeted" /\ MessageStep) =>
       \A ws \in DOMAIN connections, type \in RelayTypes,
          tourId \in TourIds, X \in UserIds :
         Message(ws, type, tourId, X)
           => Recipients(out') \subseteq Holder(connections[ws].tourId, X)]_vars

\* C5: in the broadcast version an 'offer' without targetId sent by the
\* connection in the guide slot of tour T is passed to send() for every
\* participant of T except the sender, and for no member of another tour.
C5_BroadcastDelivery ==
  [][(version = "broadcast" /\ MessageStep) =>
       \A t \in DOMAIN tours, tourId \in TourIds :
         (tours[t].guide # NoWs
            /\ Message(tours[t].guide, "offer", tourId, NoUser))
           => /\ out' = {Frame(p, "offer") :
                           p \in tours[t].participants \ {tours[t].guide}}
              /\ \A t2 \in DOMAIN tours \ {t} :
                   Recipients(out') \cap Members(t2) = {}]_vars

\* C5 witness: the guide of a tour with a participant has just sent an
\* offer, the participant got it, and another tour with a member exists.
C5_Witness ==
  /\ version = "broadcast"
  /\ lastOp.op = "message"
  /\ \E t \in DOMAIN tours :
       /\ tours[t].guide # NoWs
       /\ tours[t].participants # {}
       /\ out = {Frame(p, "offer") : p \in tours[t].participants}
       /\ \E t2 \in DOMAIN tours \ {t} : Members(t2) # {}

\* C6: joinTour by a handle without identity record followed at once by
\* leaveTour of that handle restores both registries.
C6_RoundTrip ==
  (lastOp.op = "leave-tour" /\ snap # {}) =>
    \A s \in snap : tours = s.tours /\ connections = s.connections

\* C7: the userId of a tour's guide is not the userId of a participant (I1).
C7_Disjointness ==
  \A t \in DOMAIN tours :
    IF version = "broadcast"
    THEN (tours[t].guide \in DOMAIN connections) =>
           \A p \in tours[t].participants \cap DOMAIN connections :
             connections[p].userId # connections[tours[t].guide].userId
    ELSE tours[t].guide # T_NoGuide
           => tours[t].guide.userId \notin DOMAIN tours[t].participants

\* userId u is bound in tour t by a handle other than ws.
UserIdHeldByOther(t, u, ws) ==
  /\ t \in DOMAIN tours
  /\ IF version = "broadcast"
     THEN \E h \in (Members(t) \cap DOMAIN connections) \ {ws} :
            connections[h].userId = u
     ELSE \/ tours[t].guide.userId = u /\ tours[t].guide.ws # ws
          \/ u \in DOMAIN tours[t].participants
               /\ tours[t].participants[u] # ws

\* C8: a joinTour claiming a userId that another handle holds in the same
\* tour is rejected with an error frame and changes neither registry.
C8_UserIdCollision ==
  [][\A ws \in Handles : JoinBy(ws) =>
       \A t \in TourIds, u \in UserIds, role \in Roles :
         (UserIdHeldByOther(t, u, ws) /\ JoinTour(ws, t, u, role))
           => /\ Frame(ws, "error") \in out'
              /\ tours' = tours
              /\ connections' = connections]_vars

\* C9: in the broadcast version, when the guide's frame is fanned out and a
\* participant's socket is dead, every other participant still gets the
\* frame and the dead connection is removed from both registries within
\* that relay.
C9_FaultIsolation ==
  [][(version = "broadcast" /\ MessageStep) =>
       \A t \in DOMAIN tours, type \in {"offer", "ice-candidate"},
          tourId \in TourIds :
         (tours[t].guide # NoWs
            /\ Message(tours[t].guide, type, tourId, NoUser))
           => \A p \in tours[t].participants :
                IF transport[p] = "dead"
                THEN ~Referenced(tours', connections', p)
                ELSE Frame(p, type) \in out']_vars

\* C10: the liveness tick removes every bound connection whose transport
\* died silently, as leaveTour(handle) would.
C10_LivenessEviction ==
  lastOp.op = "tick" =>
    \A h \in Handles :
      transport[h] = "dead" => ~Referenced(tours, connections, h)

\* The step is a leaveTour or a close of ws.
LeaveBy(ws) == lastOp' \in {Op("leave-tour", ws), Op("close", ws)}

\* C11: leaveTour(handle), and the close handler, on a handle with no
\* identity record sends no message and leaves both registries unchanged;
\* so does a leaveTour or close that follows a leaveTour of the same handle
\* at once.
C11_LeaveIdempotent ==
  [][\A ws \in Handles :
       (LeaveBy(ws)
          /\ (ws \notin DOMAIN connections \/ lastOp = Op("leave-tour", ws)))
         => /\ out' = {}
            /\ tours' = tours
            /\ connections' = connections]_vars

\* C11 witness: a handle with no identity record has just run leaveTour
\* while a tour with a guide and a participant is registered.
C11_Witness ==
  /\ lastOp.op = "leave-tour"
  /\ fresh
  /\ out = {}
  /\ ~Referenced(tours, connections, lastOp.ws)
  /\ \E t \in DOMAIN tours : Cardinality(Members(t)) >= 2

\* C12: when the handle in a tour's guide slot runs leaveTour or disconnects,
\* the tour is removed from the Tour Registry within that operation, even
\* when participants remain.
C12_GuideDeparture ==
  [][\A ws \in Handles : LeaveBy(ws) =>
       \A t \in DOMAIN tours : GuideWs(t) = ws => t \notin DOMAIN tours']_vars

\* After the step, tour t holds ws in the slot that role names (userId u).
JoinedAs(ws, t, u, role) ==
  /\ ws \in DOMAIN connections'
  /\ connections'[ws].tourId = t
  /\ t \in DOMAIN tours'
  /\ IF version = "broadcast"
     THEN IF role = "guide" THEN tours'[t].guide = ws
          ELSE ws \in tours'[t].participants
     ELSE IF role = "guide" THEN tours'[t].guide.ws = ws
          ELSE u \in DOMAIN tours'[t].participants
                 /\ tours'[t].participants[u] = ws

\* C13: a well-formed 'join-tour' frame received on an open connection with
\* no identity record reaches joinTour: afterwards the Connection Registry
\* binds the connection and the Tour Registry holds it as guide or
\* participant (a guide join on a tour that has a guide aside).
C13_FreshJoin ==
  [][\A ws \in Handles : JoinBy(ws) =>
       \A t \in TourIds, u \in UserIds, role \in Roles :
         (ws \notin DOMAIN connections
            /\ ~(role = "guide" /\ GuideHeldByOther(t, ws))
            /\ MessageJoin(ws, t, u, role))
           => JoinedAs(ws, t, u, role)]_vars

\* C14: in the broadcast version an 'offer' from a connection not bound as
\* guide, and an 'answer' from a connection not bound as participant, is
\* delivered to no connection and the sender gets an error frame.
C14_RoleRestrictedRelay ==
  [][(version = "broadcast" /\ MessageStep) =>
       \A ws \in DOMAIN connections, tourId \in TourIds :
         /\ (connections[ws].role # "guide"
               /\ Message(ws, "offer", tourId, NoUser))
              => out' = {Frame(ws, "error")}
         /\ (connections[ws].role # "participant"
               /\ Message(ws, "answer", tourId, NoUser))
              => out' = {Frame(ws, "error")}]_vars

\* The envelopes the message handler sends for the frame data of ws.
Relayed(ws, data) ==
  (IF version = "broadcast" THEN B_message(St, ws, data)
   ELSE T_message(St, ws, data)).out

\* The role the registries give to a bound handle: the role field of its
\* identity record, or (targeted version) the slot it holds in its tour.
RegistryRole(ws) ==
  IF version = "broadcast" THEN connections[ws].role
  ELSE LET t == connections[ws].tourId IN
       IF t \notin DOMAIN tours THEN ""
       ELSE IF tours[t].guide.ws = ws THEN "guide"
       ELSE IF ws \in Values(tours[t].participants) THEN "participant"
       ELSE ""

\* C15: every relayed envelope carries fromId = the userId and fromRole =
\* the role the registries hold for the sender, so two frames that differ
\* only in the fromId / fromRole the client wrote are delivered with the
\* same fromId and fromRole.
C15_SenderAttribution ==
  [][MessageStep =>
       \A ws \in DOMAIN connections, type \in RelayTypes, tourId \in TourIds,
          targetId \in UserIds \cup {NoUser}, from \in ClientSenders :
         MessageFrom(ws, type, tourId, targetId, from[1], from[2])
           => LET data == Data(type, tourId, NoUser, "", targetId) IN
              /\ \A f \in Relayed(ws, From(data, from[1], from[2])) :
                   /\ f.fromId = connections[ws].userId
                   /\ f.fromRole = RegistryRole(ws)
              /\ Relayed(ws, From(data, from[1], from[2])) = Relayed(ws, data)]_vars

\* C16: a joinTour whose role is neither 'guide' nor 'participant' (or is
\* missing) is answered with an error frame, creates no tour and creates no
\* identity record.
C16_JoinValidation ==
  [][\A ws \in Handles : JoinBy(ws) =>
       \A t \in TourIds, u \in UserIds, role \in AnyRoles \ Roles :
         JoinTour(ws, t, u, role)
           => /\ Frame(ws, "error") \in out'
              /\ t \notin DOMAIN tours => t \notin DOMAIN tours'
              /\ ws \notin DOMAIN connections => ws \notin DOMAIN connections']_vars

\* The places of the Tour Registry that reference ws: guide slots and
\* participant entries (one per Set member, one per Map key).
Slots(ws) ==
  {<<t, "guide">> : t \in {x \in DOMAIN tours : GuideWs(x) = ws}}
    \cup (IF version = "broadcast"
          THEN {<<t, "participant">> :
                  t \in {x \in DOMAIN tours : ws \in tours[x].participants}}
          ELSE UNION {{<<t, u>> : u \in {y \in DOMAIN tours[t].participants :
                                           tours[t].participants[y] = ws}} :
                      t \in DOMAIN tours})

\* C17: every handle is referenced by at most one tour, and at most once
\* within it (as guide or as one participant entry).
C17_SingleMembership == \A ws \in Handles : Cardinality(Slots(ws)) <= 1

\* C17 witness: a handle that was bound has just joined again, two tours
\* are registered and every handle is referenced exactly once.
C17_Witness ==
  /\ lastOp.op = "join-tour"
  /\ ~fresh
  /\ Cardinality(DOMAIN tours) = 2
  /\ \A ws \in Handles : Cardinality(Slots(ws)) = 1

\* C18: a handle has an identity record naming tour t exactly when t is
\* registered and references the handle: no stale identity record and no
\* tour referencing a handle without one.
C18_RegistryConsistency ==
  \A ws \in Handles, t \in TourIds :
    BoundTo(ws, t) <=> (t \in DOMAIN tours /\ ws \in Members(t))

\* C19: when the handle in a tour's guide slot issues joinTour again with the
\* same tourId, the same userId and role 'guide', the join is accepted and
\* both registries are what they were before it; in particular every
\* participant is still in the tour.
C19_IdempotentRejoin ==
  [][\A ws \in Handles : JoinBy(ws) =>
       \A t \in DOMAIN tours :
         (GuideWs(t) = ws /\ BoundTo(ws, t)
            /\ JoinTour(ws, t, connections[ws].userId, "guide"))
           => /\ Frame(ws, "error") \notin out'
              /\ tours' = tours
              /\ connections' = connections]_vars

\* After the step, tour t is registered with the handle g in its guide slot.
StillGuidedBy(t, g) ==
  /\ t \in DOMAIN tours'
  /\ IF version = "broadcast" THEN tours'[t].guide = g
     ELSE tours'[t].guide.ws = g

\* C20: a leaveTour or disconnect of a handle that is not in the guide slot
\* of tour t leaves t registered with its guide and sends 'guide-left' to no
\* member of t: the guide-departure path is taken for the guide's own
\* connection only.
C20_GuidePathReserved ==
  [][\A ws \in Handles : LeaveBy(ws) =>
       \A t \in DOMAIN tours :
         GuideHeldByOther(t, ws)
           => /\ StillGuidedBy(t, GuideWs(t))
              /\ \A p \in Members(t) : Frame(p, "guide-left") \notin out']_vars

====
